---- MODULE Spec2Model ----
(***************************************************************************)
(* Data acquisition of the South Korea COVID-19 vaccination dashboard:     *)
(* VaccinationDataFetcher.fetch_vaccination_data, fetch_daily_stats and    *)
(* fetch_regional_data (src/data_fetcher.py).  Each call checks the cache  *)
(* file of its dataset kind, tries the source adapters of its chain in     *)
(* order, falls back to a cache file of any age, and otherwise raises.     *)
(* run_vaccination_analysis (src/main.py) calls the three in order and     *)
(* repeats the whole pass after a failure.  The normalizers                *)
(* (_format_vaccination_data, _format_daily_stats, _process_jh_data) and   *)
(* VaccinationDataProcessor.process_vaccination_data are operators on      *)
(* tables, applied by specifications of their own.                         *)
(*                                                                         *)
(* Time is counted in whole days: with an integer cache_days,              *)
(*   now - mtime < timedelta(days=cache_days)                              *)
(* holds exactly when the whole days elapsed are fewer than cache_days.    *)
(* A call is taken to finish within the day it started (every request has  *)
(* a 30 s timeout), so the clock moves only between calls.                 *)
(***************************************************************************)
EXTENDS Integers, Sequences, FiniteSets, TLC

VARIABLES
    cache,       \* kind -> the cache file of that kind (exists, mtime, content)
    now,         \* the wall clock, in days
    calls,       \* acquire calls started so far
    pc,          \* position of the running call: idle, try, fallback, done, fail, raw
    kind,        \* dataset kind of the running call
    use_cache,   \* argument of the running call
    cache_days,  \* argument of the running call
    idx,         \* 1-based position in the chain of the adapter tried next
    error_log,   \* error_log of the running call: <<[source, category]>>
    invoked,     \* adapters invoked by the running call, in order
    last,        \* what the latest adapter invocation did
    result,      \* the DataFrame the call returned
    origin,      \* where the returned DataFrame came from
    \* run_vaccination_analysis
    rpc,            \* position of the run: none, loop, wait, process, exit
    retry_count,    \* argument of the run
    refresh_data,   \* argument of the run
    attempt,        \* the loop variable: the pass under way
    stage,          \* 1-based position in the pass of the dataset acquired next
    fetch_success,
    error_messages, \* <<[attempt, kind, exc, lines]>>, one per failed acquisition
    sleeps,         \* time.sleep(5) calls made so far
    failures,       \* history: <<[attempt, kind, source]>>, every failed adapter attempt
    \* normalization of one table
    fpc,            \* position: none, raw, formatted, processed
    source_name,    \* argument of the formatter
    table,          \* data: the table the adapter returned
    formatted_data, \* what the formatter returned, or the exception it raised
    processed,      \* df: what process_vaccination_data made of it
    \* _process_jh_data
    jpc,            \* position: none, fetched, reshaped
    confirmed_sk,   \* the 'Korea, South' row: its columns, in order
    result_df       \* what _process_jh_data returned, or the exception it raised

fetchvars == <<cache, now, calls, pc, kind, use_cache, cache_days, idx,
               error_log, invoked, last, result, origin>>

runvars == <<rpc, retry_count, refresh_data, attempt, stage, fetch_success,
             error_messages, sleeps, failures>>

normvars == <<fpc, source_name, table, formatted_data, processed>>

jhvars == <<jpc, confirmed_sk, result_df>>

vars == <<fetchvars, runvars, normvars, jhvars>>

(* ------------------------------ bounds -------------------------------- *)
MaxTime == 2
MaxCalls == 2
MaxRetry == 2
MaxRows == 4
MaxCols == 4
MaxDays == 2
MaxRegions == 2

(* --------------------------- program constants ------------------------ *)
DefaultCacheDays == 1
POPULATION == 51000000

Kinds == {"Vaccination", "DailyStats", "Regional"}

\* Faulty variant: an aggregator or scraper is listed ahead of the government sources.
SourcesAggregatorFirst(k) ==
    CASE k = "Vaccination" -> <<"OWID", "KDCA", "MOHW", "WHO", "OSS Community">>
      [] k = "DailyStats"  -> <<"JH", "KDCA", "MOHW", "WHO">>
      [] k = "Regional"    -> <<"Web Scraping", "KDCA Regional", "MOHW Regional">>

\* for source_name, fetch_func in sources
Sources(k) ==
    CASE k = "Vaccination" -> <<"KDCA", "MOHW", "OWID", "WHO", "OSS Community">>
      [] k = "DailyStats"  -> <<"KDCA", "MOHW", "JH", "WHO">>
      [] k = "Regional"    -> <<"KDCA Regional", "MOHW Regional", "Web Scraping">>

(* ------------------------------ exceptions ---------------------------- *)
\* The exception classes the adapters, the formatters and to_csv/read_csv raise,
\* each with the classes it is an instance of (Python's class hierarchy).
Bases(e) ==
    CASE e = "ConnectionError" -> {"ConnectionError", "RequestException", "Exception"}
      [] e = "ConnectTimeout"  -> {"ConnectTimeout", "ConnectionError", "Timeout",
                                   "RequestException", "Exception"}
      [] e = "Timeout"         -> {"Timeout", "RequestException", "Exception"}
      [] e = "HTTPError"       -> {"HTTPError", "RequestException", "Exception"}
      [] e = "JSONDecodeError" -> {"JSONDecodeError", "ValueError", "Exception"}
      [] e = "ParserError"     -> {"ParserError", "ValueError", "Exception"}
      [] e = "EmptyDataError"  -> {"EmptyDataError", "ValueError", "Exception"}
      [] e = "ValueError"      -> {"ValueError", "Exception"}
      [] e = "KeyError"        -> {"KeyError", "Exception"}
      [] e = "NameError"       -> {"NameError", "Exception"}
      [] e = "OSError"         -> {"OSError", "Exception"}

\* The except clauses of the resolver loop, in their order, with the prefix each
\* gives its error_msg.
ExceptClauses ==
    << [cls |-> "ConnectionError", label |-> "Network connection error"],
       [cls |-> "Timeout",         label |-> "Timeout error"],
       [cls |-> "HTTPError",       label |-> "HTTP error"],
       [cls |-> "JSONDecodeError", label |-> "JSON parsing error"],
       [cls |-> "ParserError",     label |-> "CSV parsing error"],
       [cls |-> "Exception",       label |-> "Unexpected error"] >>

\* The clause that catches e: the first one whose class e is an instance of.
Handler(e) ==
    LET hit == {i \in 1..Len(ExceptClauses) : ExceptClauses[i].cls \in Bases(e)}
        first == CHOOSE i \in hit : \A j \in hit : i <= j
    IN  ExceptClauses[first].label

(* ------------------------------ adapters ------------------------------ *)
RequestErrors == {"ConnectionError", "ConnectTimeout", "Timeout", "HTTPError"}

\* What fetch_func() of source s can raise into the resolver loop.
Raises(k, s) ==
    CASE k = "Vaccination" /\ s = "KDCA" ->
            RequestErrors \cup {"JSONDecodeError", "ValueError"}
      [] k = "Vaccination" /\ s = "MOHW" ->
            RequestErrors \cup {"JSONDecodeError", "ValueError"}
      [] k = "Vaccination" /\ s = "OWID" ->
            RequestErrors \cup {"ParserError", "EmptyDataError", "ValueError"}
      [] k = "Vaccination" /\ s = "WHO" ->
            RequestErrors \cup {"ParserError", "EmptyDataError", "ValueError", "KeyError"}
      [] k = "Vaccination" /\ s = "OSS Community" ->
            RequestErrors \cup {"JSONDecodeError", "ParserError", "EmptyDataError",
                                "ValueError", "KeyError"}
      [] k = "DailyStats" /\ s = "KDCA" ->
            RequestErrors \cup {"JSONDecodeError", "ValueError"}
      [] k = "DailyStats" /\ s = "MOHW" ->
            RequestErrors \cup {"JSONDecodeError", "ValueError"}
      [] k = "DailyStats" /\ s = "JH" ->
            RequestErrors \cup {"ParserError", "EmptyDataError", "ValueError", "NameError"}
      [] k = "DailyStats" /\ s = "WHO" ->
            RequestErrors \cup {"ParserError", "EmptyDataError", "ValueError", "KeyError"}
      [] k = "Regional" /\ s = "KDCA Regional" ->
            \* the API path's own errors are swallowed; these are the scrape's
            RequestErrors \cup {"ValueError"}
      [] k = "Regional" /\ s = "MOHW Regional" ->
            RequestErrors \cup {"JSONDecodeError", "ValueError"}
      [] k = "Regional" /\ s = "Web Scraping" ->
            \* every scrape error is caught inside; the adapter raises its own
            {"ValueError"}

\* The exception classes the environment is drawn from: a transport error, a parse
\* error, an adapter's own ValueError and a programming error,
\* one of each failure kind, drawn wherever the adapter can raise it.
ExcDrawn == {"ConnectionError", "JSONDecodeError", "ValueError", "NameError"}

\* Within a run of several passes one class is drawn, the one every adapter
\* can raise.
RunExcDrawn == {"ValueError"}

Drawn == IF rpc = "none" THEN ExcDrawn ELSE RunExcDrawn

\* A DataFrame: the source it was fetched from, the day it was fetched, the shape of
\* its columns, whether its dtypes are pandas' own or inferred from CSV text, and
\* DataFrame.empty.  NoneFrame stands for Python's None.
NoneFrame == [source |-> "none", day |-> 0, form |-> "none", dtypes |-> "none",
              empty |-> TRUE]

Frame(s, t, f) == [source |-> s, day |-> t, form |-> f, dtypes |-> "native",
                   empty |-> FALSE]

EmptyFrame(s, t) == [source |-> s, day |-> t, form |-> "raw", dtypes |-> "native",
                     empty |-> TRUE]

\* What fetch_func() of source s can return at day t.  Every adapter but one raises
\* on an empty table; _fetch_kdca_regional_data returns the API's table unchecked,
\* or the processed dashboard scrape.  _fetch_jh_daily_stats ends in
\* _process_jh_data, whose np.cumsum raises NameError (numpy is never imported).
Returned(k, s, t) ==
    CASE k = "DailyStats" /\ s = "JH" -> {}
      [] k = "Regional" /\ s = "KDCA Regional" ->
            {Frame(s, t, "raw"), EmptyFrame(s, t), Frame(s, t, "processed")}
      [] k = "Regional" /\ s = "Web Scraping" -> {Frame(s, t, "placeholder")}
      [] OTHER -> {Frame(s, t, "raw")}

\* A step inside an adapter that has a fallback of its own, and how it ended.
Step(name, out) == [step |-> name, outcome |-> out]

\* What an adapter invocation does: the steps inside it, the table it returns
\* or the exception it raises, and the exceptions being handled when it raised
\* (the __context__ chain of what it raised).
Outcome(st, data, e, ctx) == [steps |-> st, data |-> data, exc |-> e, context |-> ctx]

\* _fetch_kdca_regional_data: whatever its request path raises is caught inside
\* the adapter: the request, raise_for_status, response.json(), data['regions'],
\* pd.read_csv, the content type.
ApiRaises ==
    RequestErrors \cup {"JSONDecodeError", "KeyError", "ParserError", "EmptyDataError",
                        "ValueError"}

\* The request path returns a table with rows or without, or raises.
ApiOutcomes == {"table", "empty"} \cup (ApiRaises \cap Drawn)

\* Faulty variant: an empty table of the API also leads to the scrape.
ScrapesUnlessRows(api) == api # "table"

\* except Exception as e: return self._scrape_kdca_dashboard()
Scrapes(api) == api \notin {"table", "empty"}

\* _scrape_kdca_dashboard returns the processed table or raises.
ScrapeOutcomes == {"table"} \cup (Raises("Regional", "KDCA Regional") \cap Drawn)

KdcaRegionalOutcomes(s, t) ==
    {Outcome(<<Step("api", a)>>,
             CHOOSE d \in Returned("Regional", s, t) : d.form = "raw" /\ d.empty = (a = "empty"),
             "none", <<>>) : a \in {x \in ApiOutcomes : ~Scrapes(x)}}
    \cup
    {Outcome(<<Step("api", o[1]), Step("scrape", o[2])>>,
             IF o[2] = "table"
               THEN CHOOSE d \in Returned("Regional", s, t) : d.form = "processed"
               ELSE NoneFrame,
             IF o[2] = "table" THEN "none" ELSE o[2],
             IF o[2] = "table" THEN <<>> ELSE <<o[1]>>) :
        o \in {x \in ApiOutcomes : Scrapes(x)} \X ScrapeOutcomes}

\* _fetch_regional_data_by_scraping has one news source: its page cannot be
\* fetched, has no table, has no table with the regional header, or has one.
PageOutcomes ==
    {"regional_table", "no_tables", "no_regional_table"} \cup (RequestErrors \cap Drawn)

\* Faulty variant: a scraper that has extracted nothing returns no rows.
NewsDataNoRows(s, t, page) ==
    IF page = "regional_table" THEN EmptyFrame(s, t) ELSE NoneFrame

\* parse_news_source_1: the placeholder table, whatever the regional table holds.
NewsData(s, t, page) ==
    IF page = "regional_table"
      THEN CHOOSE d \in Returned("Regional", s, t) : d.form = "placeholder"
      ELSE NoneFrame

\* Every error of the source is caught and logged inside the adapter; after the
\* loop the adapter raises its own ValueError, outside any except block.
NewsOutcomes(s, t) ==
    {Outcome(<<Step("news-source-1", page)>>,
             NewsData(s, t, page),
             IF page = "regional_table" THEN "none" ELSE "ValueError",
             <<>>) : page \in PageOutcomes}

\* What fetch_func() of source s does at day t.
Outcomes(k, s, t) ==
    CASE k = "Regional" /\ s = "KDCA Regional" -> KdcaRegionalOutcomes(s, t)
      [] k = "Regional" /\ s = "Web Scraping"  -> NewsOutcomes(s, t)
      [] OTHER ->
            {Outcome(<<>>, d, "none", <<>>) : d \in Returned(k, s, t)}
            \cup {Outcome(<<>>, NoneFrame, e, <<>>) : e \in Raises(k, s) \cap Drawn}

\* Faulty variant: the emptiness test is forgotten.
SucceededIfNotNone(data) == data # NoneFrame

\* if data is not None and not data.empty
Succeeded(data) == data # NoneFrame /\ ~data.empty

\* formatted_data = self._format_vaccination_data(data, source_name), or
\* self._format_daily_stats(data, source_name); fetch_regional_data formats nothing.
Normalize(k, data) ==
    IF k = "Regional" THEN data ELSE [data EXCEPT !.form = "canonical"]

\* Whether the formatter of kind k can raise for source s: pd.to_datetime on the
\* date column (KDCA, OWID; WHO daily statistics).
FormatOutcomes(k, s) ==
    CASE k = "Vaccination" /\ s \in {"KDCA", "OWID"} -> {"ok", "raise"}
      [] k = "DailyStats" /\ s \in {"KDCA", "WHO"}   -> {"ok", "raise"}
      [] OTHER -> {"ok"}

(* ------------------------------ cache files --------------------------- *)
\* The text of a cache file; ok is whether pd.read_csv can parse it (an empty or
\* cut-off file cannot).
NoContent == [ok |-> FALSE, source |-> "none", day |-> 0, form |-> "none"]

NoFile == [exists |-> FALSE, mtime |-> 0, content |-> NoContent]

\* DataFrame.to_csv(cache_file, index=False): the text keeps the values and the
\* column names, not the index and not the dtypes.
ToCsv(df) == [ok |-> TRUE, source |-> df.source, day |-> df.day, form |-> df.form]

\* pd.read_csv(cache_file) of a parseable file.
ReadCsv(content) == [source |-> content.source, day |-> content.day,
                     form |-> content.form, dtypes |-> "inferred", empty |-> FALSE]

\* to_csv either writes the file, or raises OSError before opening it (the file is
\* as it was), or raises after open(..., 'w') truncated it.
WriteOutcomes == {"ok", "fail_unchanged", "fail_truncated"}

\* Faulty variant: the cache is not written.
WriteCacheForgotten(file, df, t, w) == file

WriteCache(file, df, t, w) ==
    CASE w = "ok"             -> [exists |-> TRUE, mtime |-> t, content |-> ToCsv(df)]
      [] w = "fail_unchanged" -> file
      [] w = "fail_truncated" -> [exists |-> TRUE, mtime |-> t, content |-> NoContent]

\* datetime.now() - file_modified < timedelta(days=cache_days)
IsFresh(age, days) == age < days

\* if use_cache and os.path.exists(cache_file): ... if <fresh>:
CacheHit(uc, file, t, days) == uc /\ file.exists /\ IsFresh(t - file.mtime, days)

(* ------------------------------ the call ------------------------------ *)
\* The latest turn of the loop: the source, the steps inside its adapter, what
\* fetch_func() did (raised, empty, rows), where the turn ended, the exception
\* caught in it and the exceptions that one was raised while handling.
NoLast == [source |-> "none", steps |-> <<>>, fetch |-> "none", res |-> "none",
           exc |-> "none", context |-> <<>>]

Turn(s, st, fetched, ended, e, ctx) ==
    [source |-> s, steps |-> st, fetch |-> fetched, res |-> ended, exc |-> e,
     context |-> ctx]

\* What the adapter handed back, as the turn records it.
Fetched(data) == IF data = NoneFrame THEN "null" ELSE IF data.empty THEN "empty" ELSE "rows"

\* cache_days as the caller passes it: run_vaccination_analysis never does, so the
\* default applies.
CacheDaysDrawn == {DefaultCacheDays}

\* No call is running.
Idle ==
    /\ pc = "idle"
    /\ kind = "none"
    /\ use_cache = FALSE
    /\ cache_days = 0
    /\ idx = 0
    /\ error_log = <<>>
    /\ invoked = <<>>
    /\ last = NoLast
    /\ result = NoneFrame
    /\ origin = "none"

\* run_vaccination_analysis is not running.
NoRun ==
    /\ rpc = "none"
    /\ retry_count = 0
    /\ refresh_data = FALSE
    /\ attempt = 0
    /\ stage = 0
    /\ fetch_success = FALSE
    /\ error_messages = <<>>
    /\ sleeps = 0
    /\ failures = <<>>

\* No table is being normalized.
NoTable ==
    /\ fpc = "none"
    /\ source_name = "none"
    /\ table = <<>>
    /\ formatted_data = <<>>
    /\ processed = <<>>

\* No time series is being reshaped.
NoReshape ==
    /\ jpc = "none"
    /\ confirmed_sk = <<>>
    /\ result_df = <<>>

Init ==
    /\ cache = [k \in Kinds |-> NoFile]
    /\ now = 0
    /\ calls = 0
    /\ Idle
    /\ NoRun
    /\ NoTable
    /\ NoReshape

\* The for loop moves on to the next source, or ends.
AfterFailure(i, k) == IF i < Len(Sources(k)) THEN "try" ELSE "fallback"

\* Faulty variant: the loop goes on after a success.
AfterSuccessGoesOn(i, k) == AfterFailure(i, k)

\* return formatted_data, inside the loop
AfterSuccess(i, k) == "done"

\* error_log.append(error_msg) in the except clause that catches e: the entry
\* is kept as its source and the prefix of its message.
Logged(log, s, e) == Append(log, [source |-> s, category |-> Handler(e)])

\* The rest of the message of the entry logged for e: str(e) and, in the last
\* clause only, traceback.format_exc(), which also prints the exceptions e was
\* raised while handling (ctx).
Message(e, ctx) ==
    [exc |-> e, traceback |-> IF Handler(e) = "Unexpected error" THEN ctx ELSE <<>>]


\* Entry of fetch_vaccination_data / fetch_daily_stats / fetch_regional_data: the
\* cache check.  A fresh file is read and returned; pd.read_csv is outside every
\* try block, so what it raises leaves the call as it is.
Acquire(k, uc, days) ==
    /\ pc = "idle"
    /\ calls' = calls + 1
    /\ kind' = k
    /\ use_cache' = uc
    /\ cache_days' = days
    /\ error_log' = <<>>
    /\ invoked' = <<>>
    /\ last' = NoLast
    /\ IF CacheHit(uc, cache[k], now, days)
         THEN /\ idx' = 0
              /\ IF cache[k].content.ok
                   THEN /\ pc' = "done"
                        /\ result' = ReadCsv(cache[k].content)
                        /\ origin' = "cache"
                   ELSE /\ pc' = "raw"
                        /\ result' = NoneFrame
                        /\ origin' = "none"
         ELSE /\ idx' = 1
              /\ pc' = "try"
              /\ result' = NoneFrame
              /\ origin' = "none"
    /\ UNCHANGED <<cache, now>>

\* One turn of the loop in which fetch_func() raises e.
TryRaise ==
    /\ pc = "try"
    /\ LET s == Sources(kind)[idx] IN
       \E o \in Outcomes(kind, s, now) :
          /\ o.exc # "none"
          /\ invoked' = Append(invoked, s)
          /\ error_log' = Logged(error_log, s, o.exc)
          /\ last' = Turn(s, o.steps, "raised", "fetch_raised", o.exc, o.context)
          /\ pc' = AfterFailure(idx, kind)
          /\ idx' = idx + 1
    /\ UNCHANGED <<cache, now, calls, kind, use_cache, cache_days, result, origin>>
    /\ UNCHANGED <<runvars, normvars, jhvars>>

\* One turn of the loop in which fetch_func() returns: the success test, the
\* formatter, to_csv and the return, with the except clauses for what the
\* formatter (ValueError) and to_csv (OSError) raise.
TryReturn ==
    /\ pc = "try"
    /\ LET s == Sources(kind)[idx] IN
       \E o \in Outcomes(kind, s, now) :
       \E f \in FormatOutcomes(kind, s) :
       \E w \in WriteOutcomes :
       LET data == o.data IN
          /\ o.exc = "none"
          /\ invoked' = Append(invoked, s)
          /\ idx' = idx + 1
          /\ IF ~Succeeded(data)
               THEN /\ last' = Turn(s, o.steps, Fetched(data), "not_succeeded", "none", <<>>)
                    /\ pc' = AfterFailure(idx, kind)
                    /\ UNCHANGED <<cache, error_log, result, origin>>
               ELSE IF f = "raise"
               THEN /\ last' = Turn(s, o.steps, Fetched(data), "format_raised", "ValueError", <<>>)
                    /\ error_log' = Logged(error_log, s, "ValueError")
                    /\ pc' = AfterFailure(idx, kind)
                    /\ UNCHANGED <<cache, result, origin>>
               ELSE IF w # "ok"
               THEN /\ cache' = [cache EXCEPT ![kind] =
                                    WriteCache(@, Normalize(kind, data), now, w)]
                    /\ last' = Turn(s, o.steps, Fetched(data), "write_raised", "OSError", <<>>)
                    /\ error_log' = Logged(error_log, s, "OSError")
                    /\ pc' = AfterFailure(idx, kind)
                    /\ UNCHANGED <<result, origin>>
               ELSE /\ cache' = [cache EXCEPT ![kind] =
                                    WriteCache(@, Normalize(kind, data), now, w)]
                    /\ last' = Turn(s, o.steps, Fetched(data), "returned", "none", <<>>)
                    /\ result' = Normalize(kind, data)
                    /\ origin' = "live"
                    /\ pc' = AfterSuccess(idx, kind)
                    /\ UNCHANGED error_log
    /\ UNCHANGED <<now, calls, kind, use_cache, cache_days>>
    /\ UNCHANGED <<runvars, normvars, jhvars>>

\* After the loop: a cache file of any age is read and returned (pd.read_csv is
\* outside every try block here too); with no file, RuntimeError with the
\* joined error_log.
Fallback ==
    /\ pc = "fallback"
    /\ IF cache[kind].exists
         THEN IF cache[kind].content.ok
                THEN /\ pc' = "done"
                     /\ result' = ReadCsv(cache[kind].content)
                     /\ origin' = "stale"
                ELSE /\ pc' = "raw"
                     /\ UNCHANGED <<result, origin>>
         ELSE /\ pc' = "fail"
              /\ UNCHANGED <<result, origin>>
    /\ UNCHANGED <<cache, now, calls, kind, use_cache, cache_days, idx,
                   error_log, invoked, last>>
    /\ UNCHANGED <<runvars, normvars, jhvars>>

\* The call is over: its locals are gone.
EndCall ==
    /\ pc' = "idle"
    /\ kind' = "none"
    /\ use_cache' = FALSE
    /\ cache_days' = 0
    /\ idx' = 0
    /\ error_log' = <<>>
    /\ invoked' = <<>>
    /\ last' = NoLast
    /\ result' = NoneFrame
    /\ origin' = "none"
    /\ UNCHANGED <<cache, now, calls>>

\* A call made outside a run returns or raises to its caller.
Return ==
    /\ rpc = "none"
    /\ pc \in {"done", "fail", "raw"}
    /\ EndCall
    /\ UNCHANGED <<runvars, normvars, jhvars>>

\* A day passes between two calls.
Tick ==
    /\ pc = "idle"
    /\ now < MaxTime
    /\ now' = now + 1
    /\ UNCHANGED <<cache, calls, pc, kind, use_cache, cache_days, idx,
                   error_log, invoked, last, result, origin>>
    /\ UNCHANGED <<runvars, normvars, jhvars>>

\* A call made outside a run, with any arguments.
Call ==
    /\ rpc = "none"
    /\ calls < MaxCalls
    /\ \E k \in Kinds, uc \in BOOLEAN, days \in CacheDaysDrawn : Acquire(k, uc, days)
    /\ UNCHANGED <<runvars, normvars, jhvars>>

Next == Call \/ TryRaise \/ TryReturn \/ Fallback \/ Return \/ Tick

Spec == Init /\ [][Next]_vars

\* Every step of a call is a synchronous statement of one thread, and every
\* request carries timeout=30: a call that has started goes on to its next step.
SpecLive == Spec /\ WF_vars(TryRaise \/ TryReturn) /\ WF_vars(Fallback)

(* ------------------------ run_vaccination_analysis -------------------- *)
\* Faulty variant: the regional data is fetched first.
PassRegionalFirst == <<"Regional", "Vaccination", "DailyStats">>

\* The three try blocks of a pass, in their order.
Pass == <<"Vaccination", "DailyStats", "Regional">>

\* --retry is any integer; range(1, retry_count + 1) is empty below 1.
RetryDrawn == -1..MaxRetry

\* The cache directory as earlier runs left it: empty, or each file written by
\* the first source of its chain on day t.
LeftBy(t) ==
    [k \in Kinds |->
        WriteCache(NoFile, Normalize(k, Frame(Sources(k)[1], t, "raw")), t, "ok")]

CachesDrawn == {[k \in Kinds |-> NoFile], LeftBy(0), LeftBy(1)}

InitRun ==
    /\ cache \in CachesDrawn
    /\ now = 1
    /\ calls = 0
    /\ Idle
    /\ rpc = "start"
    /\ retry_count \in RetryDrawn
    /\ refresh_data \in BOOLEAN
    /\ attempt = 0
    /\ stage = 0
    /\ fetch_success = FALSE
    /\ error_messages = <<>>
    /\ sleeps = 0
    /\ failures = <<>>
    /\ NoTable
    /\ NoReshape

\* The adapters of the call that has just ended which did not succeed.
FailedSources ==
    IF origin = "live" THEN SubSeq(invoked, 1, Len(invoked) - 1) ELSE invoked

Noted(a, k, failed) == [i \in 1..Len(failed) |-> [attempt |-> a, kind |-> k, source |-> failed[i]]]

\* error_detail: str(e) of what the call raised.  The RuntimeError of the
\* resolver carries the joined error_log; what pd.read_csv raises carries none.
ErrorDetail(a, k, ended, log) ==
    [attempt |-> a, kind |-> k,
     exc   |-> IF ended = "fail" THEN "RuntimeError" ELSE "EmptyDataError",
     lines |-> IF ended = "fail" THEN log ELSE <<>>]

\* Faulty variant: the retry resumes at the dataset that failed.
RetryFromFailed(st) == st

\* for attempt in range(...): every pass starts at the first try block.
RetryFrom(st) == 1

\* if attempt < retry_count: time.sleep(5)
SleepsAfter(a, rc) == a < rc

\* Faulty variant: the body of the loop runs once before the count is tested.
EntersLoopUntested(rc) == TRUE

\* range(1, retry_count + 1) has a first element.
EntersLoop(rc) == 1 <= rc

\* for attempt in range(1, retry_count + 1), before the first pass.
RunStart ==
    /\ rpc = "start"
    /\ IF EntersLoop(retry_count)
         THEN /\ attempt' = 1
              /\ stage' = 1
              /\ rpc' = "loop"
         ELSE /\ rpc' = "exit"
              /\ UNCHANGED <<attempt, stage>>
    /\ UNCHANGED <<retry_count, refresh_data, fetch_success, error_messages,
                   sleeps, failures>>
    /\ UNCHANGED <<fetchvars, normvars, jhvars>>

\* fetcher.fetch_*(use_cache=not refresh_data) of the try block reached.
RunFetch ==
    /\ rpc = "loop"
    /\ Acquire(Pass[stage], ~refresh_data, DefaultCacheDays)
    /\ rpc' = "wait"
    /\ UNCHANGED <<retry_count, refresh_data, attempt, stage, fetch_success,
                   error_messages, sleeps, failures>>
    /\ UNCHANGED <<normvars, jhvars>>

\* The call returned a dataset: the next try block, or fetch_success and break.
RunFetched ==
    /\ rpc = "wait"
    /\ pc = "done"
    /\ failures' = failures \o Noted(attempt, kind, FailedSources)
    /\ IF stage < Len(Pass)
         THEN /\ stage' = stage + 1
              /\ rpc' = "loop"
              /\ UNCHANGED fetch_success
         ELSE /\ fetch_success' = TRUE
              /\ rpc' = "process"
              /\ UNCHANGED stage
    /\ EndCall
    /\ UNCHANGED <<retry_count, refresh_data, attempt, error_messages, sleeps>>
    /\ UNCHANGED <<normvars, jhvars>>

\* The call raised: error_messages.append(error_detail), raise RuntimeError, the
\* outer except clause, and the next turn of the for loop or, after it,
\* raise SystemExit.
RunFetchFailed ==
    /\ rpc = "wait"
    /\ pc \in {"fail", "raw"}
    /\ failures' = failures \o Noted(attempt, kind, FailedSources)
    /\ error_messages' = Append(error_messages, ErrorDetail(attempt, kind, pc, error_log))
    /\ sleeps' = IF SleepsAfter(attempt, retry_count) THEN sleeps + 1 ELSE sleeps
    /\ IF attempt < retry_count
         THEN /\ attempt' = attempt + 1
              /\ stage' = RetryFrom(stage)
              /\ rpc' = "loop"
         ELSE /\ rpc' = "exit"
              /\ UNCHANGED <<attempt, stage>>
    /\ EndCall
    /\ UNCHANGED <<retry_count, refresh_data, fetch_success>>
    /\ UNCHANGED <<normvars, jhvars>>

NextRun ==
    RunStart \/ RunFetch \/ TryRaise \/ TryReturn \/ Fallback \/ RunFetched \/ RunFetchFailed

SpecRun == InitRun /\ [][NextRun]_vars

(* ------------------------------- tables ------------------------------- *)
\* A DataFrame with its values: a function from column names to columns, each a
\* sequence with one value per row.  A date token is the number of its day, or 0
\* when it is not a date; a count is an integer; a percentage is held in
\* hundredths (its two decimals).
Cols(t) == DOMAIN t

Rows(t) == IF Cols(t) = {} THEN 0 ELSE Len(t[CHOOSE c \in Cols(t) : TRUE])

Const(n, v) == [i \in 1..n |-> v]

\* config.REGIONS
REGIONS ==
    <<"Seoul", "Busan", "Daegu", "Incheon", "Gwangju", "Daejeon", "Ulsan", "Sejong",
      "Gyeonggi", "Gangwon", "Chungbuk", "Chungnam", "Jeonbuk", "Jeonnam", "Gyeongbuk",
      "Gyeongnam", "Jeju">>

\* Python's None in a cell, NaN in a column of names.
Null == "None"

\* NaN in a column of numbers.
NaN == -1

\* The table parse_news_source_1 builds: one row per region, no counts.
PlaceholderTable ==
    [c \in {"region", "first_dose", "second_dose", "booster"} |->
        IF c = "region" THEN REGIONS ELSE Const(Len(REGIONS), Null)]

\* df[c] = v
WithCol(t, c, v) == [x \in Cols(t) \cup {c} |-> IF x = c THEN v ELSE t[x]]

\* df.rename(columns=m)
Renamed(m, c) == IF c \in DOMAIN m THEN m[c] ELSE c

Rename(t, m) ==
    [x \in {Renamed(m, c) : c \in Cols(t)} |->
        t[CHOOSE c \in Cols(t) : Renamed(m, c) = x]]

\* pd.to_datetime(column) raises unless every token is a date.
Parses(tok) == tok >= 1

AllParse(column) == \A i \in 1..Len(column) : Parses(column[i])

\* df.sort_values('date'): the rows in the order of their dates, rows of equal
\* date in their former order.
RowAt(dates, r) ==
    CHOOSE i \in 1..Len(dates) :
        Cardinality({j \in 1..Len(dates) :
                        \/ dates[j] < dates[i]
                        \/ dates[j] = dates[i] /\ j < i}) = r - 1

SortByDate(t) ==
    [c \in Cols(t) |-> [r \in 1..Rows(t) |-> t[c][RowAt(t["date"], r)]]]

\* column.diff().fillna(0).astype(int): the first row has no predecessor.
Diff(s) == [i \in 1..Len(s) |-> IF i = 1 THEN 0 ELSE s[i] - s[i - 1]]

\* df.loc[df[col] < 0, col] = 0
Clamp(s) == [i \in 1..Len(s) |-> IF s[i] < 0 THEN 0 ELSE s[i]]

RECURSIVE SumTo(_, _)
SumTo(s, i) == IF i = 0 THEN 0 ELSE SumTo(s, i - 1) + s[i]

\* column.cumsum()
CumSum(s) == [i \in 1..Len(s) |-> SumTo(s, i)]

\* (column / POPULATION * 100).round(2), in hundredths of a percent.
Pct(x) == (2 * 10000 * x + POPULATION) \div (2 * POPULATION)

Percentage(s) == [i \in 1..Len(s) |-> Pct(s[i])]

Plus(a, b) == [i \in 1..Len(a) |-> a[i] + b[i]]

\* (column * proportion).astype(int), the proportion in percent.
Share(s, percent) == [i \in 1..Len(s) |-> (s[i] * percent) \div 100]

(* ---------------------- _format_vaccination_data ---------------------- *)
\* What a normalizer hands back: a table, or the exception it raised.
Ok(t) == [exc |-> "none", t |-> t]

Raised(e) == [exc |-> e, t |-> <<>>]

\* datetime.now().strftime(DATE_FORMAT): a day after every day of the data.
Today == MaxRows + 1

required_columns ==
    <<"date", "daily_first_dose", "daily_second_dose", "daily_booster",
      "cumulative_first_dose", "cumulative_second_dose", "cumulative_booster",
      "first_dose_percentage", "second_dose_percentage", "booster_percentage">>

\* for col in required_columns: if col not in formatted_data.columns: ...
RECURSIVE FillRequired(_, _)
FillRequired(t, i) ==
    IF i > Len(required_columns) THEN t
    ELSE LET col == required_columns[i] IN
         FillRequired(
            IF col \in Cols(t) THEN t
            ELSE WithCol(t, col, Const(Rows(t), IF col = "date" THEN Today ELSE 0)),
            i + 1)

\* The OWID branch: the daily column made for each cumulative column present.
OwidCumulative ==
    <<"total_vaccinations", "people_vaccinated", "people_fully_vaccinated", "total_boosters">>

OwidDaily(col) ==
    CASE col = "total_vaccinations"      -> "daily_total_vaccinations"
      [] col = "people_vaccinated"       -> "daily_people_vaccinated"
      [] col = "people_fully_vaccinated" -> "daily_people_fully_vaccinated"
      [] col = "total_boosters"          -> "daily_total_boosters"

RECURSIVE OwidDailies(_, _)
OwidDailies(t, i) ==
    IF i > Len(OwidCumulative) THEN t
    ELSE LET col == OwidCumulative[i] IN
         OwidDailies(
            IF col \in Cols(t) THEN WithCol(t, OwidDaily(col), Clamp(Diff(t[col]))) ELSE t,
            i + 1)

OwidMapping ==
    [c \in {"people_vaccinated", "people_fully_vaccinated", "total_boosters",
             "daily_people_vaccinated", "daily_people_fully_vaccinated",
             "daily_total_boosters"} |->
        CASE c = "people_vaccinated"             -> "cumulative_first_dose"
          [] c = "people_fully_vaccinated"       -> "cumulative_second_dose"
          [] c = "total_boosters"                -> "cumulative_booster"
          [] c = "daily_people_vaccinated"       -> "daily_first_dose"
          [] c = "daily_people_fully_vaccinated" -> "daily_second_dose"
          [] c = "daily_total_boosters"          -> "daily_booster"]

\* vaccine_distribution, in percent, with the columns made for each type.
vaccine_distribution ==
    << [daily |-> "Pfizer_daily",      percentage |-> "Pfizer_percentage",      share |-> 45],
       [daily |-> "Moderna_daily",     percentage |-> "Moderna_percentage",     share |-> 30],
       [daily |-> "AstraZeneca_daily", percentage |-> "AstraZeneca_percentage", share |-> 15],
       [daily |-> "Janssen_daily",     percentage |-> "Janssen_percentage",     share |-> 5],
       [daily |-> "Novavax_daily",     percentage |-> "Novavax_percentage",     share |-> 5] >>

RECURSIVE Distribute(_, _)
Distribute(t, i) ==
    IF i > Len(vaccine_distribution) THEN t
    ELSE LET v == vaccine_distribution[i] IN
         Distribute(
            WithCol(WithCol(t, v.daily, Share(t["daily_total"], v.share)),
                    v.percentage, Const(Rows(t), 100 * v.share)),
            i + 1)

FormatOwid(t) ==
    IF "date" \notin Cols(t) THEN Raised("KeyError")
    ELSE IF ~AllParse(t["date"]) THEN Raised("ValueError")
    ELSE
      LET renamed == Rename(OwidDailies(SortByDate(t), 1), OwidMapping) IN
      IF {"cumulative_first_dose", "cumulative_second_dose"} \subseteq Cols(renamed)
        THEN
          LET p1 == WithCol(renamed, "first_dose_percentage",
                            Percentage(renamed["cumulative_first_dose"]))
              p2 == WithCol(p1, "second_dose_percentage",
                            Percentage(renamed["cumulative_second_dose"]))
              p3 == IF "cumulative_booster" \in Cols(p2)
                      THEN WithCol(p2, "booster_percentage",
                                   Percentage(p2["cumulative_booster"]))
                      ELSE p2
              total == Plus(Plus(p3["daily_first_dose"], p3["daily_second_dose"]),
                            IF "daily_booster" \in Cols(p3) THEN p3["daily_booster"]
                            ELSE Const(Rows(p3), 0))
          IN  Ok(Distribute(WithCol(p3, "daily_total", total), 1))
        ELSE Raised("KeyError")

KdcaMapping ==
    [c \in {"first_dose_total", "second_dose_total", "booster_total",
             "first_dose_daily", "second_dose_daily", "booster_daily"} |->
        CASE c = "first_dose_total"  -> "cumulative_first_dose"
          [] c = "second_dose_total" -> "cumulative_second_dose"
          [] c = "booster_total"     -> "cumulative_booster"
          [] c = "first_dose_daily"  -> "daily_first_dose"
          [] c = "second_dose_daily" -> "daily_second_dose"
          [] c = "booster_daily"     -> "daily_booster"]

KdcaPercentages ==
    << <<"cumulative_first_dose", "first_dose_percentage">>,
       <<"cumulative_second_dose", "second_dose_percentage">>,
       <<"cumulative_booster", "booster_percentage">> >>

RECURSIVE AddPercentages(_, _)
AddPercentages(t, i) ==
    IF i > Len(KdcaPercentages) THEN t
    ELSE LET source_col == KdcaPercentages[i][1]
             target_col == KdcaPercentages[i][2]
         IN  AddPercentages(
                IF source_col \in Cols(t) /\ target_col \notin Cols(t)
                  THEN WithCol(t, target_col, Percentage(t[source_col]))
                  ELSE t,
                i + 1)

FormatKdca(t) ==
    IF "date" \in Cols(t) /\ ~AllParse(t["date"]) THEN Raised("ValueError")
    ELSE Ok(AddPercentages(Rename(t, KdcaMapping), 1))

\* _format_vaccination_data(data, source_name): the branch of the source, then
\* the required columns.  MOHW, WHO and OSS Community have no formatting (pass).
FormatVaccinationData(t, s) ==
    LET branch == CASE s = "OWID" -> FormatOwid(t)
                    [] s = "KDCA" -> FormatKdca(t)
                    [] OTHER      -> Ok(t)
    IN  IF branch.exc = "none" THEN Ok(FillRequired(branch.t, 1)) ELSE branch

(* --------- VaccinationDataProcessor.process_vaccination_data ----------- *)
processor_required ==
    <<"daily_first_dose", "daily_second_dose", "daily_booster",
      "cumulative_first_dose", "cumulative_second_dose", "cumulative_booster">>

IsDaily(col) == col \in {"daily_first_dose", "daily_second_dose", "daily_booster"}

\* col.replace('daily_', 'cumulative_') and col.replace('cumulative_', 'daily_')
Counterpart(col) ==
    CASE col = "daily_first_dose"       -> "cumulative_first_dose"
      [] col = "daily_second_dose"      -> "cumulative_second_dose"
      [] col = "daily_booster"          -> "cumulative_booster"
      [] col = "cumulative_first_dose"  -> "daily_first_dose"
      [] col = "cumulative_second_dose" -> "daily_second_dose"
      [] col = "cumulative_booster"     -> "daily_booster"

\* for col in required_columns: if col not in df.columns: ...
RECURSIVE AddMissing(_, _)
AddMissing(t, i) ==
    IF i > Len(processor_required) THEN t
    ELSE LET col == processor_required[i]
             other == Counterpart(col)
         IN  AddMissing(
                IF col \in Cols(t) THEN t
                ELSE IF other \notin Cols(t) THEN WithCol(t, col, Const(Rows(t), 0))
                ELSE IF IsDaily(col) THEN WithCol(t, col, Clamp(Diff(t[other])))
                ELSE WithCol(t, col, CumSum(t[other])),
                i + 1)

\* process_vaccination_data up to its percentages: the date column parsed, the
\* rows sorted, the missing columns added.  What follows (7-day means, the
\* daily total, change rates, the save) adds columns and changes none of these.
ProcessVaccinationData(t) ==
    IF "date" \notin Cols(t) THEN Raised("KeyError")
    ELSE IF ~AllParse(t["date"]) THEN Raised("ValueError")
    ELSE Ok(AddPercentages(AddMissing(SortByDate(t), 1), 1))

(* ----------------------- the tables the sources deliver ---------------- *)
VaccinationSources == {Sources("Vaccination")[i] : i \in 1..Len(Sources("Vaccination"))}

\* The columns a source's table is drawn from.  KDCA's second-dose columns are
\* handled as its first-dose columns are and are left out of the draw.
RawColumns(s) ==
    CASE s = "OWID" -> {"date", "total_vaccinations", "people_vaccinated",
                        "people_fully_vaccinated", "total_boosters"}
      [] s = "KDCA" -> {"date", "first_dose_total", "first_dose_daily",
                        "booster_total", "booster_daily"}
      [] s = "WHO"  -> {"Date_reported", "Country", "New_cases", "Cumulative_cases"}
      [] s = "MOHW" -> {"date", "daily_first_dose", "cumulative_first_dose",
                        "daily_booster", "cumulative_booster"}
      [] s = "OSS Community" -> {"date", "daily_first_dose", "cumulative_first_dose"}

DateNames == {"date", "Date_reported"}

DailyNames == {"first_dose_daily", "booster_daily", "daily_first_dose", "daily_booster",
               "New_cases"}

\* The counts a cumulative column is drawn from: a series may rise, stay or be
\* corrected downwards.
Counts == {100, 140, 150, 200}

\* The date columns drawn: rising, falling, the first day twice, a last token
\* that is no date.
DatesDrawn(n) ==
    { [i \in 1..n |-> i],
      [i \in 1..n |-> n + 1 - i],
      [i \in 1..n |-> IF i = 1 THEN 1 ELSE i - 1],
      [i \in 1..n |-> IF i = n THEN 0 ELSE i] }

\* The change of a cumulative series from row to row, as a source reports it in
\* a daily column: negative where the series was corrected downwards.
Delta(s) == [i \in 1..Len(s) |-> IF i = 1 THEN s[1] ELSE s[i] - s[i - 1]]

RawTable(cols, dates, series) ==
    [c \in cols |->
        IF c \in DateNames THEN dates
        ELSE IF c \in DailyNames THEN Delta(series)
        ELSE IF c = "Country" THEN Const(Len(series), "Republic of Korea")
        ELSE series]

\* Whether the adapter of source s returns table t: what it checks before its
\* return (KDCA: the date column, parsed; OWID: its required columns; WHO: the
\* Country column it filters on).
Delivers(s, t) ==
    CASE s = "KDCA" -> "date" \in Cols(t) /\ AllParse(t["date"])
      [] s = "OWID" -> {"date", "total_vaccinations", "people_vaccinated",
                        "people_fully_vaccinated"} \subseteq Cols(t)
      [] s = "WHO"  -> "Country" \in Cols(t)
      [] OTHER      -> TRUE

InitFormat ==
    /\ cache = [k \in Kinds |-> NoFile]
    /\ now = 0
    /\ calls = 0
    /\ Idle
    /\ NoRun
    /\ NoReshape
    /\ fpc = "raw"
    /\ source_name \in VaccinationSources
    /\ \E n \in 1..MaxRows :
       \E series \in [1..n -> Counts] :
       \E dates \in DatesDrawn(n) :
       \E cols \in (SUBSET RawColumns(source_name)) \ {{}} :
          table = RawTable(cols, dates, series)
    /\ formatted_data = <<>>
    /\ processed = <<>>

\* formatted_data = self._format_vaccination_data(data, source_name)
Format ==
    /\ fpc = "raw"
    /\ formatted_data' = FormatVaccinationData(table, source_name)
    /\ fpc' = "formatted"
    /\ UNCHANGED <<source_name, table, processed>>
    /\ UNCHANGED <<fetchvars, runvars, jhvars>>

\* processed_vaccination = processor.process_vaccination_data(vaccination_data)
Process ==
    /\ fpc = "formatted"
    /\ formatted_data.exc = "none"
    /\ processed' = ProcessVaccinationData(formatted_data.t)
    /\ fpc' = "processed"
    /\ UNCHANGED <<source_name, table, formatted_data>>
    /\ UNCHANGED <<fetchvars, runvars, jhvars>>

NextFormat == Format \/ Process

SpecFormat == InitFormat /\ [][NextFormat]_vars

(* --------------------------- _format_daily_stats ---------------------- *)
KdcaDailyMapping ==
    [c \in {"confirmed_daily", "death_daily", "testing_daily"} |->
        CASE c = "confirmed_daily" -> "daily_cases"
          [] c = "death_daily"     -> "daily_deaths"
          [] c = "testing_daily"   -> "daily_tests"]

WhoMapping ==
    [c \in {"Date_reported", "New_cases", "New_deaths", "Cumulative_cases",
             "Cumulative_deaths"} |->
        CASE c = "Date_reported"     -> "date"
          [] c = "New_cases"         -> "daily_cases"
          [] c = "New_deaths"        -> "daily_deaths"
          [] c = "Cumulative_cases"  -> "cumulative_cases"
          [] c = "Cumulative_deaths" -> "cumulative_deaths"]

\* (daily_cases / daily_tests * 100).round(2), in hundredths of a percent; the
\* numbers of tests drawn are positive.
Rate(cases, tests) ==
    [i \in 1..Len(cases) |-> (2 * 10000 * cases[i] + tests[i]) \div (2 * tests[i])]

\* if all(col in formatted_data.columns for col in ['daily_cases', 'daily_tests'])
AddPositivity(t) ==
    IF {"daily_cases", "daily_tests"} \subseteq Cols(t)
      THEN WithCol(t, "positivity_rate", Rate(t["daily_cases"], t["daily_tests"]))
      ELSE t

\* if 'date' in formatted_data.columns: sort_values('date')
SortIfDated(t) == IF "date" \in Cols(t) THEN SortByDate(t) ELSE t

\* _format_daily_stats(data, source_name): a table that has daily_cases and
\* daily_deaths is returned as it is; otherwise the branch of the source (the
\* tables drawn for WHO hold rows of 'Republic of Korea' only, and dates as text,
\* so its branch renames and does no more), the rate and the sort.
FormatDailyStats(t, s) ==
    IF {"daily_cases", "daily_deaths"} \subseteq Cols(t) THEN Ok(t)
    ELSE
      LET branch ==
            CASE s = "KDCA" ->
                    IF "date" \in Cols(t) /\ ~AllParse(t["date"])
                      THEN Raised("ValueError")
                      ELSE Ok(Rename(t, KdcaDailyMapping))
              [] s = "WHO" -> Ok(Rename(t, WhoMapping))
              [] OTHER -> Ok(t)
      IN  IF branch.exc = "none" THEN Ok(SortIfDated(AddPositivity(branch.t))) ELSE branch

DailySources == {Sources("DailyStats")[i] : i \in 1..Len(Sources("DailyStats"))}

\* The columns a source's table of daily statistics is drawn from.
DailyRawColumns(s) ==
    CASE s = "KDCA" -> {"date", "confirmed_daily", "death_daily", "testing_daily"}
      [] s = "MOHW" -> {"date", "daily_cases", "daily_deaths", "daily_tests"}
      [] s = "JH"   -> {"date", "daily_cases", "daily_deaths", "cumulative_cases"}
      [] s = "WHO"  -> {"Date_reported", "Country", "New_cases", "New_deaths"}

TestNames == {"testing_daily", "daily_tests"}

\* The numbers of tests of a day.
Tests == {300, 7000}

DailyTable(cols, dates, cases, tests) ==
    [c \in cols |->
        IF c \in DateNames THEN dates
        ELSE IF c \in TestNames THEN tests
        ELSE IF c = "Country" THEN Const(Len(cases), "Republic of Korea")
        ELSE cases]

InitDaily ==
    /\ cache = [k \in Kinds |-> NoFile]
    /\ now = 0
    /\ calls = 0
    /\ Idle
    /\ NoRun
    /\ NoReshape
    /\ fpc = "raw"
    /\ source_name \in DailySources
    /\ \E n \in 1..MaxDays :
       \E cases \in [1..n -> Counts] :
       \E tests \in [1..n -> Tests] :
       \E dates \in DatesDrawn(n) :
       \E cols \in (SUBSET DailyRawColumns(source_name)) \ {{}} :
          table = DailyTable(cols, dates, cases, tests)
    /\ formatted_data = <<>>
    /\ processed = <<>>

\* formatted_data = self._format_daily_stats(data, source_name)
FormatDaily ==
    /\ fpc = "raw"
    /\ formatted_data' = FormatDailyStats(table, source_name)
    /\ fpc' = "formatted"
    /\ UNCHANGED <<source_name, table, processed>>
    /\ UNCHANGED <<fetchvars, runvars, jhvars>>

NextDaily == FormatDaily

SpecDaily == InitDaily /\ [][NextDaily]_vars

(* ------------------- _process_scraped_regional_data ------------------- *)
\* The Korean names of the regions, the keys of region_mapping, in the order of
\* REGIONS; "ko:Seoul" stands for the Korean spelling of Seoul.
KoreanNames ==
    <<"ko:Seoul", "ko:Busan", "ko:Daegu", "ko:Incheon", "ko:Gwangju", "ko:Daejeon",
      "ko:Ulsan", "ko:Sejong", "ko:Gyeonggi", "ko:Gangwon", "ko:Chungbuk",
      "ko:Chungnam", "ko:Jeonbuk", "ko:Jeonnam", "ko:Gyeongbuk", "ko:Gyeongnam",
      "ko:Jeju">>

region_mapping ==
    [k \in {KoreanNames[i] : i \in 1..Len(KoreanNames)} |->
        REGIONS[CHOOSE i \in 1..Len(KoreanNames) : KoreanNames[i] = k]]

RegionSet == {REGIONS[i] : i \in 1..Len(REGIONS)}

\* Series.map(mapping): the value of the key, NaN for what is no key.
MapNames(column, mapping) ==
    [i \in 1..Len(column) |->
        IF column[i] \in DOMAIN mapping THEN mapping[column[i]] ELSE Null]

\* population_distribution, in percent.
population_distribution ==
    [r \in RegionSet |->
        CASE r = "Seoul" -> 20
          [] r = "Busan" -> 7
          [] r \in {"Daegu", "Gyeongbuk"} -> 5
          [] r \in {"Incheon", "Gyeongnam"} -> 6
          [] r \in {"Gwangju", "Daejeon", "Gangwon", "Chungbuk", "Jeonbuk", "Jeonnam"} -> 3
          [] r = "Ulsan" -> 2
          [] r \in {"Sejong", "Jeju"} -> 1
          [] r = "Gyeonggi" -> 25
          [] r = "Chungnam" -> 4]

\* int(POPULATION * dist): the product of the two floats is the whole number
\* itself for each of the seventeen shares, and int() leaves it.
PopulationOf(r) == (POPULATION * population_distribution[r]) \div 100

\* The text of a scraped cell of numbers, as its groups of digits between the
\* commas: <<5, 100, 0>> is '5,100,000'; <<>> is text that is no number ('-').
RECURSIVE Number(_)
Number(groups) ==
    IF groups = <<>> THEN 0
    ELSE 1000 * Number(SubSeq(groups, 1, Len(groups) - 1)) + groups[Len(groups)]

\* df[col].str.replace(',', '').astype(float)
ToFloat(column) == [i \in 1..Len(column) |-> Number(column[i])]

\* The header of the first column of the dashboard's table (the Korean for
\* 'region'), and those of a column of first doses (it contains the Korean for
\* 'first') and of the population.  Columns of second doses and of boosters are
\* handled as that of first doses is and are left out of the draw.
FirstCol == "jiyeok"

Keyword(col) ==
    CASE col = "1cha jeopjong" -> "first_dose"
      [] col = "ingu"          -> "population"
      [] OTHER                 -> "none"

\* a * 10^k / b by long division, as <<quotient, remainder>>.
RECURSIVE Quotient(_, _, _)
Quotient(a, b, k) ==
    IF k = 0 THEN <<a \div b, a % b>>
    ELSE LET q == Quotient(a, b, k - 1)
         IN  <<10 * q[1] + (10 * q[2]) \div b, (10 * q[2]) % b>>

\* (result_df[col] / result_df['population'] * 100).round(2), in hundredths;
\* NaN where the population is NaN.
PercentageOf(dose, population) ==
    [i \in 1..Len(dose) |->
        IF population[i] = NaN THEN NaN
        ELSE LET q == Quotient(dose[i], population[i], 4)
             IN  q[1] + (IF 2 * q[2] >= population[i] THEN 1 ELSE 0)]

\* _process_scraped_regional_data(df)
ProcessScrapedRegionalData(t) ==
    LET names == t[FirstCol]
        region == IF {names[i] : i \in 1..Len(names)} \cap RegionSet = {}
                    THEN MapNames(names, region_mapping)
                    ELSE names
        numbers == Cols(t) \ {FirstCol, "region"}
    IN  IF \E c \in numbers : \E i \in 1..Len(t[c]) : t[c][i] = <<>>
          THEN Raised("ValueError")
          ELSE
            LET named == {c \in numbers : Keyword(c) # "none"}
                selected ==
                    [x \in {"region"} \cup {Keyword(c) : c \in named} |->
                        IF x = "region" THEN region
                        ELSE ToFloat(t[CHOOSE c \in named : Keyword(c) = x])]
                populated ==
                    IF "population" \in Cols(selected) THEN selected
                    ELSE WithCol(selected, "population",
                                 [i \in 1..Len(region) |->
                                     IF region[i] \in RegionSet
                                       THEN PopulationOf(region[i]) ELSE NaN])
            IN  Ok(IF "first_dose" \in Cols(populated)
                     THEN WithCol(populated, "first_dose_percentage",
                                  PercentageOf(populated["first_dose"],
                                               populated["population"]))
                     ELSE populated)

(* ---------------------- the regional tables returned ------------------ *)
\* The ways a regional table comes to fetch_regional_data: the request path of
\* the KDCA adapter, its dashboard scrape, the MOHW adapter, the news scrape.
RegionalPaths == {"KDCA Regional", "KDCA dashboard", "MOHW Regional", "Web Scraping"}

\* The names a row is drawn from: Korean names, English names, and the Korean
\* name of a row of totals, which is no key of region_mapping.
NamesDrawn == {"ko:Seoul", "ko:Busan", "Seoul", "Busan", "ko:Total"}

\* The cells of numbers drawn: 5,100,000 and 1,020,000 doses, and '-'.
DosesDrawn == {<<5, 100, 0>>, <<1, 20, 0>>, <<>>}

\* 10,000,000 inhabitants.
PopulationsDrawn == {<<10, 0, 0>>}

\* The columns of numbers of a table: the dashboard's table is the one whose
\* headers name the region and the vaccination, with or without a population.
HeadersDrawn == {{"1cha jeopjong"}, {"1cha jeopjong", "ingu"}}

\* The dashboard's table: text in every cell.
ScrapedTable(names, doses, populations, cols) ==
    [c \in {FirstCol} \cup cols |->
        IF c = FirstCol THEN names
        ELSE IF Keyword(c) = "population" THEN populations
        ELSE doses]

\* pd.DataFrame(data['regions']): the same rows as an API gives them, numbers in
\* the cells of numbers.
ApiTable(names, doses, populations, cols) ==
    [c \in {"region"} \cup {Keyword(x) : x \in cols} |->
        IF c = "region" THEN names
        ELSE IF c = "population" THEN ToFloat(populations)
        ELSE ToFloat(doses)]

\* What the adapter hands to fetch_regional_data, which returns it as it is.
RegionalData(path, t) ==
    CASE path = "KDCA dashboard" -> ProcessScrapedRegionalData(t)
      [] path = "Web Scraping"   -> Ok(PlaceholderTable)
      [] OTHER                   -> Ok(t)

InitRegional ==
    /\ cache = [k \in Kinds |-> NoFile]
    /\ now = 0
    /\ calls = 0
    /\ Idle
    /\ NoRun
    /\ NoReshape
    /\ fpc = "raw"
    /\ source_name \in RegionalPaths
    /\ \E n \in 1..MaxRegions :
       \E names \in [1..n -> NamesDrawn] :
       \E doses \in [1..n -> DosesDrawn] :
       \E populations \in [1..n -> PopulationsDrawn] :
       \E cols \in HeadersDrawn :
          table = IF source_name \in {"KDCA dashboard", "Web Scraping"}
                    THEN ScrapedTable(names, doses, populations, cols)
                    ELSE ApiTable(names, doses, populations, cols)
    /\ formatted_data = <<>>
    /\ processed = <<>>

\* data = fetch_func() ... return data
FetchRegional ==
    /\ fpc = "raw"
    /\ formatted_data' = RegionalData(source_name, table)
    /\ fpc' = "formatted"
    /\ UNCHANGED <<source_name, table, processed>>
    /\ UNCHANGED <<fetchvars, runvars, jhvars>>

NextRegional == FetchRegional

SpecRegional == InitRegional /\ [][NextRegional]_vars

(* ---------------------------- _process_jh_data ------------------------ *)
\* A column of the time-series row: the separator its name contains ("/", "-"
\* or none), whether the name is a date in the format of its separator, the
\* day it names (its place in the header) and the value of the row in it: a
\* count, text ('Korea, South') or NaN (no Province/State).
Column(sep, parses, day, holds, n) ==
    [sep |-> sep, parses |-> parses, day |-> day, kind |-> holds, n |-> n]

\* The columns a place of the header is drawn from.
ColumnsDrawn(day) ==
    {Column("/", TRUE, day, "count", n) : n \in Counts}
    \cup {Column("/", FALSE, day, "count", n) : n \in Counts}
    \cup {Column("/", FALSE, day, "text", 0), Column("/", FALSE, day, "nan", 0),
          Column("", FALSE, day, "count", 0), Column("-", TRUE, day, "count", 100)}

\* if '/' in col or '-' in col
Selected(col) == col.sep # ""

\* The names bound in the module: its imports.
ModuleNames == {"os", "requests", "pd", "datetime", "timedelta", "time", "json",
                "BeautifulSoup", "io", "traceback"}

\* cum - previous: text raises TypeError, NaN gives NaN.
Minus(a, b) ==
    IF "text" \in {a.kind, b.kind} THEN [kind |-> "TypeError", n |-> 0]
    ELSE IF "nan" \in {a.kind, b.kind} THEN [kind |-> "nan", n |-> 0]
    ELSE [kind |-> "count", n |-> a.n - b.n]

\* max(0, x): 0 unless x > 0, and NaN > 0 is false.
MaxZero(x) == IF x.kind = "count" /\ x.n > 0 THEN x.n ELSE 0

\* for i in range(len(date_columns)): a name that is no date is skipped with a
\* warning (except ValueError); any other exception leaves the loop.
RECURSIVE Reshape(_, _, _)
Reshape(cols, i, acc) ==
    IF i > Len(cols) THEN acc
    ELSE IF ~cols[i].parses THEN Reshape(cols, i + 1, acc)
    ELSE LET day_cases == IF i > 1 THEN Minus(cols[i], cols[i - 1]) ELSE cols[i] IN
         IF day_cases.kind = "TypeError" THEN [acc EXCEPT !.exc = "TypeError"]
         ELSE Reshape(cols, i + 1,
                      [acc EXCEPT !.dates = Append(@, cols[i].day),
                                  !.daily = Append(@, MaxZero(day_cases))])

\* _process_jh_data(cases_df, deaths_df); the deaths row holds the values of the
\* cases row.
ProcessJhData(row) ==
    LET cols == SelectSeq(row, Selected)
        made == Reshape(cols, 1, [exc |-> "none", dates |-> <<>>, daily |-> <<>>])
    IN  IF cols = <<>> THEN Raised("ValueError")
        ELSE IF made.exc # "none" THEN Raised(made.exc)
        ELSE IF made.dates = <<>> THEN Raised("ValueError")
        ELSE IF "np" \notin ModuleNames THEN Raised("NameError")
        ELSE Ok([c \in {"date", "daily_cases", "daily_deaths",
                        "cumulative_cases", "cumulative_deaths"} |->
                    CASE c = "date" -> made.dates
                      [] c \in {"daily_cases", "daily_deaths"} -> made.daily
                      [] OTHER -> CumSum(made.daily)])

InitJh ==
    /\ cache = [k \in Kinds |-> NoFile]
    /\ now = 0
    /\ calls = 0
    /\ Idle
    /\ NoRun
    /\ NoTable
    /\ jpc = "fetched"
    /\ \E n \in 1..MaxCols :
       \E row \in [1..n -> UNION {ColumnsDrawn(d) : d \in 1..n}] :
          /\ \A i \in 1..n : row[i].day = i
          /\ confirmed_sk = row
    /\ result_df = <<>>

\* return self._process_jh_data(cases_df, deaths_df)
ReshapeJh ==
    /\ jpc = "fetched"
    /\ result_df' = ProcessJhData(confirmed_sk)
    /\ jpc' = "reshaped"
    /\ UNCHANGED confirmed_sk
    /\ UNCHANGED <<fetchvars, runvars, normvars>>

NextJh == ReshapeJh

SpecJh == InitJh /\ [][NextJh]_vars

(* ------------------------------ properties ---------------------------- *)
Terminal == pc \in {"done", "fail", "raw"}

\* The chains in their stated priority order.
StatedChain(k) ==
    CASE k = "Vaccination" -> <<"KDCA", "MOHW", "OWID", "WHO", "OSS Community">>
      [] k = "DailyStats"  -> <<"KDCA", "MOHW", "JH", "WHO">>
      [] k = "Regional"    -> <<"KDCA Regional", "MOHW Regional", "Web Scraping">>

\* Government sources, then aggregators, then community and scraped data.
Tier(s) ==
    CASE s \in {"KDCA", "MOHW", "KDCA Regional", "MOHW Regional"} -> "government"
      [] s \in {"OWID", "JH", "WHO"}                              -> "aggregator"
      [] s \in {"OSS Community", "Web Scraping"}                  -> "community"

TierBefore(a, b) ==
    \/ a = b
    \/ a = "government"
    \/ a = "aggregator" /\ b = "community"

\* The failure kind of an exception an adapter raises, in the taxonomy
\* TransportError / ParseError / ValidationError / Unexpected.
FailureKind(e) ==
    CASE e \in {"ConnectionError", "ConnectTimeout", "Timeout", "HTTPError"} -> "Transport"
      [] e \in {"JSONDecodeError", "ParserError", "EmptyDataError"}          -> "Parse"
      [] e = "ValueError"                                                     -> "Validation"
      [] OTHER                                                                -> "Unexpected"

\* The category an error_log entry's prefix stands for.
CategoryOf(label) ==
    CASE label \in {"Network connection error", "Timeout error", "HTTP error"} -> "Transport"
      [] label \in {"JSON parsing error", "CSV parsing error"}                  -> "Parse"
      [] label = "Unexpected error"                                             -> "Unexpected"
      [] OTHER                                                                  -> ""

AllInvoked == Len(invoked) = Len(StatedChain(kind))

\* C1: a call with use_cache on a kind whose cache file exists and is younger than
\* cache_days returns the cached dataset, invokes no adapter and writes no cache.
C1_FreshHit ==
    [][ ( /\ pc = "idle"
          /\ pc' # "idle"
          /\ use_cache'
          /\ cache[kind'].exists
          /\ now - cache[kind'].mtime < cache_days' )
        => ( /\ pc' = "done"
             /\ origin' = "cache"
             /\ result' = ReadCsv(cache[kind'].content)
             /\ invoked' = <<>>
             /\ cache' = cache ) ]_vars

\* C2: once an adapter has succeeded the call is over and that adapter is the last
\* one invoked; if it is the first of the chain, it is the only one invoked.
C2_ShortCircuit ==
    origin = "live" =>
        /\ pc = "done"
        /\ last.res = "returned"
        /\ Len(invoked) >= 1
        /\ invoked[Len(invoked)] = result.source
        /\ last.source = result.source
        /\ (result.source = StatedChain(kind)[1] => Len(invoked) = 1)

C2_Witness == origin = "live" /\ kind = "Vaccination" /\ invoked = <<"KDCA">>

\* C3: when every adapter of the chain has failed and a cache file of the kind
\* exists, the call returns the cached dataset, whatever its age and use_cache.
C3_StaleFallback ==
    (Terminal /\ AllInvoked /\ origin # "live" /\ cache[kind].exists)
        => ( /\ pc = "done"
             /\ origin = "stale"
             /\ result = ReadCsv(cache[kind].content) )

\* C4: the call ends with its fatal failure exactly when no cache file exists and
\* every adapter was invoked and none succeeded; then nothing is returned; every
\* other call returns a dataset.
C4_FailCase == ~cache[kind].exists /\ AllInvoked /\ origin # "live"

C4_FatalOnlyWithoutCache ==
    Terminal =>
        /\ (pc = "fail" <=> C4_FailCase)
        /\ (pc = "fail" => result = NoneFrame)
        /\ (~C4_FailCase => pc = "done" /\ result # NoneFrame)

\* C5: the error log of the fatal failure holds exactly one entry, with a
\* non-empty category, for every adapter attempted in the call.
C5_OneEntryPerAttempt ==
    pc = "fail" =>
        /\ Len(error_log) = Len(invoked)
        /\ \A i \in 1..Len(error_log) :
              /\ error_log[i].source = invoked[i]
              /\ CategoryOf(error_log[i].category) # ""

\* C6: the entry logged for a failed attempt carries the category of the failure:
\* what the adapter raised by its kind, anything raised later as unexpected.
C6_CategoryMatchesKind ==
    last.exc # "none" =>
        /\ Len(error_log) >= 1
        /\ error_log[Len(error_log)].source = last.source
        /\ CategoryOf(error_log[Len(error_log)].category) =
              (IF last.res = "fetch_raised" THEN FailureKind(last.exc) ELSE "Unexpected")

\* C7: no call ends with a raw exception; only the aggregated failure leaves it.
C7_NothingEscapesRaw == pc # "raw"

\* C8: the adapters invoked are a prefix of the chain in its priority order;
\* while the loop still runs, none of them has succeeded; lower tiers come later.
C8_PriorityOrder ==
    kind \in Kinds =>
        /\ Len(invoked) <= Len(StatedChain(kind))
        /\ invoked = SubSeq(StatedChain(kind), 1, Len(invoked))
        /\ (pc = "try" => origin = "none" /\ idx = Len(invoked) + 1)
        /\ \A i, j \in 1..Len(invoked) :
              i < j => TierBefore(Tier(invoked[i]), Tier(invoked[j]))

C8_Witness == kind = "Vaccination" /\ Len(invoked) = 5 /\ origin = "none"

\* C9: a live return comes only from a fetch that returned rows; a fetch that
\* returns nothing or an empty table writes no cache, returns nothing and leaves
\* the turn to the next adapter.
C9_OnlyRowsSucceed ==
    /\ [](origin = "live" =>
             /\ last.fetch = "rows"
             /\ last.res = "returned"
             /\ result # NoneFrame
             /\ ~result.empty)
    /\ [][ (invoked' # invoked /\ last'.fetch \in {"empty", "null"})
           => ( /\ cache' = cache
                /\ origin' = "none"
                /\ result' = NoneFrame
                /\ idx' = idx + 1
                /\ pc' = (IF idx < Len(StatedChain(kind)) THEN "try" ELSE "fallback") ) ]_vars

C9_Witness ==
    /\ last.fetch = "empty"
    /\ pc = "try"
    /\ idx = 2
    /\ ~cache["Regional"].exists

RunOver == rpc \in {"process", "exit"}

PassesStarted == attempt

\* C11: the pass is run at most retry_count times; the run goes on to processing
\* only after a pass whose three acquisitions all succeeded, the first such pass;
\* a failed pass is followed by a whole new pass, starting at Vaccination, after
\* one sleep, unless it was the last, which is followed by no sleep and by the
\* end of the run with no processing.
C11_BoundedWholePassRetry ==
    /\ [](rpc \notin {"none", "start"} =>
             /\ (PassesStarted <= retry_count \/ PassesStarted = 0)
             /\ calls <= Len(Pass) * PassesStarted
             /\ sleeps = (IF PassesStarted = 0 THEN 0 ELSE PassesStarted - 1)
             /\ Len(error_messages) <= PassesStarted
             /\ (rpc = "process" =>
                    /\ fetch_success
                    /\ stage = Len(Pass)
                    /\ Len(error_messages) = PassesStarted - 1)
             /\ (rpc = "exit" =>
                    /\ ~fetch_success
                    /\ PassesStarted = (IF retry_count < 0 THEN 0 ELSE retry_count)
                    /\ Len(error_messages) = PassesStarted)
             /\ (fetch_success => rpc = "process"))
    /\ [][ /\ (RunOver => FALSE)
           /\ (Len(error_messages') > Len(error_messages) =>
                  IF attempt < retry_count
                    THEN /\ attempt' = attempt + 1
                         /\ stage' = 1
                         /\ rpc' = "loop"
                         /\ sleeps' = sleeps + 1
                    ELSE /\ rpc' = "exit"
                         /\ sleeps' = sleeps)
           /\ (attempt' # attempt => \/ rpc = "start"
                                     \/ Len(error_messages') > Len(error_messages))
           /\ (sleeps' # sleeps => attempt' = attempt + 1) ]_vars

C11_Witness ==
    /\ rpc = "exit"
    /\ retry_count = 2
    /\ sleeps = 1
    /\ error_messages[1].kind = "Regional"
    /\ error_messages[2].kind = "Vaccination"

\* C12: when the run ends because every pass failed, the report names, with a
\* category, every adapter attempt that failed in any of the passes.
C12_ReportHoldsEveryFailure ==
    rpc = "exit" =>
        \A i \in 1..Len(failures) :
            \E j \in 1..Len(error_messages) :
                /\ error_messages[j].attempt = failures[i].attempt
                /\ error_messages[j].kind = failures[i].kind
                /\ \E l \in 1..Len(error_messages[j].lines) :
                       /\ error_messages[j].lines[l].source = failures[i].source
                       /\ CategoryOf(error_messages[j].lines[l].category) # ""

(* ------------------------ properties of normalization ---------------- *)
Formatted == fpc \in {"formatted", "processed"} /\ formatted_data.exc = "none"

Processed == fpc = "processed" /\ processed.exc = "none"

\* The column of the source's table that stands for a required column.
RawName(s, col) ==
    CASE s = "OWID" /\ col = "cumulative_first_dose"  -> "people_vaccinated"
      [] s = "OWID" /\ col = "cumulative_second_dose" -> "people_fully_vaccinated"
      [] s = "OWID" /\ col = "cumulative_booster"     -> "total_boosters"
      [] s = "OWID" /\ col = "daily_first_dose"       -> "daily_people_vaccinated"
      [] s = "OWID" /\ col = "daily_second_dose"      -> "daily_people_fully_vaccinated"
      [] s = "OWID" /\ col = "daily_booster"          -> "daily_total_boosters"
      [] s = "KDCA" /\ col = "cumulative_first_dose"  -> "first_dose_total"
      [] s = "KDCA" /\ col = "cumulative_second_dose" -> "second_dose_total"
      [] s = "KDCA" /\ col = "cumulative_booster"     -> "booster_total"
      [] s = "KDCA" /\ col = "daily_first_dose"       -> "first_dose_daily"
      [] s = "KDCA" /\ col = "daily_second_dose"      -> "second_dose_daily"
      [] s = "KDCA" /\ col = "daily_booster"          -> "booster_daily"
      [] OTHER -> col

RawHas(col) == RawName(source_name, col) \in Cols(table)

DoseColumns ==
    {"daily_first_dose", "daily_second_dose", "daily_booster",
     "cumulative_first_dose", "cumulative_second_dose", "cumulative_booster"}

DailyColumns == {c \in DoseColumns : IsDaily(c)}

CumulativeColumns == DoseColumns \ DailyColumns

Max0(x) == IF x < 0 THEN 0 ELSE x

\* The daily values the stated rule derives from a cumulative column.
StatedDaily(cum) == [i \in 1..Len(cum) |-> IF i = 1 THEN cum[1] ELSE Max0(cum[i] - cum[i - 1])]

\* C13: _format_vaccination_data raises no KeyError, whatever the source name and
\* the columns of the table, and what it returns has the ten required columns; a
\* date column absent from the table holds the processing date, a dose column
\* absent with its counterpart holds zeros.
C13_TenColumnsNeverKeyError ==
    fpc \in {"formatted", "processed"} =>
        /\ formatted_data.exc # "KeyError"
        /\ (formatted_data.exc = "none" =>
              /\ \A i \in 1..Len(required_columns) :
                     required_columns[i] \in Cols(formatted_data.t)
              /\ ("date" \notin Cols(table) =>
                     formatted_data.t["date"] = Const(Rows(table), Today))
              /\ \A c \in DoseColumns :
                     (~RawHas(c) /\ ~RawHas(Counterpart(c))) =>
                         formatted_data.t[c] = Const(Rows(table), 0))

\* C14: after the formatter and the processor, in a table an adapter delivers, a
\* daily column whose source
\* column was absent while its cumulative one was present holds the successive
\* differences of the cumulative column, negatives as zero; a cumulative column
\* absent while its daily one was present holds the running sum of the daily one.
C14_DerivedNotZeroFilled ==
    (Processed /\ Delivers(source_name, table)) =>
        \A c \in DoseColumns :
            (~RawHas(c) /\ RawHas(Counterpart(c))) =>
                IF IsDaily(c)
                  THEN \A i \in 2..Rows(processed.t) :
                          processed.t[c][i] =
                              Max0(processed.t[Counterpart(c)][i]
                                   - processed.t[Counterpart(c)][i - 1])
                  ELSE processed.t[c] = CumSum(processed.t[Counterpart(c)])

\* C15: for OWID, the daily first-dose column is the first cumulative value, then
\* the differences from row to row in date order, negatives as zero:
\* 100, 150, 140, 200 gives 100, 50, 0, 60.
C15_OwidDailyFromCumulative ==
    (Formatted /\ source_name = "OWID") =>
        /\ formatted_data.t["daily_first_dose"] =
              StatedDaily(formatted_data.t["cumulative_first_dose"])
        /\ (formatted_data.t["cumulative_first_dose"] = <<100, 150, 140, 200>> =>
              formatted_data.t["daily_first_dose"] = <<100, 50, 0, 60>>)

\* C18: in a table an adapter delivers and the formatter returns, every date
\* parses and no two rows have the same date.
C18_DatesParseAndDiffer ==
    (Formatted /\ Delivers(source_name, table)) =>
        LET dates == formatted_data.t["date"] IN
        /\ AllParse(dates)
        /\ \A i, j \in 1..Len(dates) : i # j => dates[i] # dates[j]

\* C19: in a table an adapter delivers and the formatter returns, no daily dose
\* count is negative.
C19_DailyNonNegative ==
    (Formatted /\ Delivers(source_name, table)) =>
        \A c \in DailyColumns :
            \A i \in 1..Rows(formatted_data.t) : formatted_data.t[c][i] >= 0

\* C20: in a table the formatter returns (here: of those an adapter delivers),
\* no cumulative dose column falls from a row to the next in date order.
C20_CumulativeNeverFalls ==
    (Formatted /\ Delivers(source_name, table) /\ AllParse(formatted_data.t["date"])) =>
        LET sorted == SortByDate(formatted_data.t) IN
        \A c \in CumulativeColumns :
            \A i \in 2..Rows(sorted) : sorted[c][i - 1] <= sorted[c][i]

(* ---------------------- properties of _process_jh_data ---------------- *)
Reshaped == jpc = "reshaped"

DateColumns == SelectSeq(confirmed_sk, Selected)

IsDate(col) == col.parses

Days(cols) == [i \in 1..Len(cols) |-> cols[i].day]

Values(cols) == [i \in 1..Len(cols) |-> cols[i].n]

\* C16: when the name of every selected column is a date, _process_jh_data
\* returns a table with one row per selected column, in their order, whose daily
\* cases are the first cumulative value and then the differences from column to
\* column, negatives as zero: 100, 150, 140, 200 gives 100, 50, 0, 60.
C16_ReshapeReturnsDailyDeltas ==
    (Reshaped /\ DateColumns # <<>> /\ \A i \in 1..Len(DateColumns) : IsDate(DateColumns[i])) =>
        /\ result_df.exc = "none"
        /\ result_df.t["date"] = Days(DateColumns)
        /\ result_df.t["daily_cases"] = StatedDaily(Values(DateColumns))
        /\ result_df.t["daily_deaths"] = StatedDaily(Values(DateColumns))
        /\ (Values(DateColumns) = <<100, 150, 140, 200>> =>
              result_df.t["daily_cases"] = <<100, 50, 0, 60>>)

\* C17: a selected column whose name is no date is skipped and the others still
\* give their rows: the reshape returns one row per selected column whose name is
\* a date, and raises only if there is none.
C17_BadDateColumnsAreSkipped ==
    Reshaped =>
        LET good == SelectSeq(DateColumns, IsDate) IN
        IF good = <<>>
          THEN result_df.exc = "ValueError"
          ELSE /\ result_df.exc = "none"
               /\ result_df.t["date"] = Days(good)

\* C25: within a pass the datasets are acquired one at a time in the order
\* Vaccination, DailyStats, Regional; an adapter is invoked only for the dataset
\* whose turn it is; a dataset is reached only after the one before it was
\* returned; after a failed acquisition no further acquisition of the pass is
\* started: the pass is recorded as failed and the next step is the first
\* acquisition of the next pass, or the end of the run.
StatedPass == <<"Vaccination", "DailyStats", "Regional">>

C25_PassInOrderStopsAtFailure ==
    /\ [](rpc \in {"loop", "wait"} =>
             /\ stage \in 1..Len(StatedPass)
             /\ (pc # "idle" => rpc = "wait" /\ kind = StatedPass[stage])
             /\ ~fetch_success)
    /\ [][ /\ (pc = "idle" /\ pc' # "idle" => kind' = StatedPass[stage] /\ stage' = stage)
           /\ (invoked' # invoked /\ invoked' # <<>> =>
                  /\ kind = StatedPass[stage]
                  /\ invoked'[Len(invoked')] \in
                         {StatedChain(kind)[i] : i \in 1..Len(StatedChain(kind))})
           /\ (stage' = stage + 1 /\ rpc # "start" =>
                  pc = "done" /\ attempt' = attempt /\ error_messages' = error_messages)
           /\ (pc \in {"fail", "raw"} =>
                  /\ error_messages' =
                         Append(error_messages, ErrorDetail(attempt, StatedPass[stage], pc, error_log))
                  /\ fetch_success' = FALSE
                  /\ calls' = calls
                  /\ pc' = "idle"
                  /\ \/ rpc' = "exit"
                     \/ rpc' = "loop" /\ attempt' = attempt + 1 /\ stage' = 1) ]_vars

C25_Witness ==
    /\ rpc = "loop"
    /\ attempt = 2
    /\ stage = 1
    /\ calls = 2
    /\ error_messages = <<ErrorDetail(1, "DailyStats", "fail", error_messages[1].lines)>>
    /\ Len(error_messages[1].lines) = Len(StatedChain("DailyStats"))

\* C30: with retry_count below 1 the run makes no acquisition (no cache file is
\* read or written, no adapter is invoked) and ends with the data-fetch failure,
\* also when all three cache files are fresh.
C30_NoPassBelowOne ==
    /\ []((rpc # "none" /\ retry_count <= 0) =>
             /\ rpc \in {"start", "exit"}
             /\ calls = 0
             /\ pc = "idle"
             /\ invoked = <<>>
             /\ attempt = 0
             /\ ~fetch_success
             /\ error_messages = <<>>)
    /\ [][ (rpc = "start" /\ retry_count <= 0) =>
              (rpc' = "exit" /\ cache' = cache /\ calls' = calls) ]_vars

C30_Witness ==
    /\ rpc = "exit"
    /\ retry_count = 0
    /\ ~refresh_data
    /\ \A k \in Kinds : CacheHit(TRUE, cache[k], now, DefaultCacheDays) /\ cache[k].content.ok

\* The datasets a failed pass had acquired before the one that failed it.
StageOf(k) == CHOOSE i \in 1..Len(StatedPass) : StatedPass[i] = k

AcquiredBefore(k) == {StatedPass[i] : i \in 1..(StageOf(k) - 1)}

\* C27: when a call has returned a dataset, from the cache or from a source, the
\* cache file of its kind exists; a cache file that exists is never removed and
\* the fatal failure is raised only without one; and in the retry loop the
\* dataset that fails a pass is never one that an earlier pass had acquired.
C27_AcquiredKindNeverFailsLater ==
    /\ [](pc = "done" => cache[kind].exists)
    /\ [](pc = "fail" => ~cache[kind].exists)
    /\ [][\A k \in Kinds : cache[k].exists => cache'[k].exists]_vars
    /\ [](\A i, j \in 1..Len(error_messages) :
             i < j => error_messages[j].kind \notin AcquiredBefore(error_messages[i].kind))

\* No adapter occurs twice in the sequence.
NoRepeat(seq) == \A i, j \in 1..Len(seq) : i # j => seq[i] # seq[j]

\* C24: a call ends as Done (a dataset is returned) or Fail (the fatal error) and
\* in no other way; it goes from the cache check through the adapters of the
\* chain, one after the other, to the stale fallback; no adapter is invoked twice
\* in a call; and a call under way always reaches its end.
C24_EndsDoneOrFailEachAdapterOnce ==
    /\ [](Terminal => pc \in {"done", "fail"})
    /\ [](pc # "idle" =>
             /\ NoRepeat(invoked)
             /\ invoked = SubSeq(StatedChain(kind), 1, Len(invoked)))
    /\ [][ /\ (pc = "idle" /\ pc' # "idle" => pc' \in {"done", "try"} /\ invoked' = <<>>)
           /\ (pc = "try" =>
                  /\ Len(invoked') = Len(invoked) + 1
                  /\ pc' \in {"try", "fallback", "done"}
                  /\ (pc' = "fallback" <=> (origin' = "none" /\ AllInvoked')))
           /\ (pc = "fallback" => pc' \in {"done", "fail"} /\ invoked' = invoked)
           /\ (Terminal => pc' = "idle") ]_vars
    /\ ((pc \in {"try", "fallback"}) ~> (pc \in {"done", "fail"}))

\* C26: a cache file changes only in the step in which an adapter of its own kind
\* succeeds and the call returns the dataset written; so a call that ends with a
\* fresh hit, with the stale fallback or with the fatal failure leaves every
\* file as it was.  No file is ever removed.  After a stale fallback the file is
\* as old as before, and a call that finds no fresh file tries the sources.
C26_CacheChangesOnlyOnLiveSuccess ==
    /\ [][\A k \in Kinds :
              cache'[k] # cache[k] =>
                  /\ k = kind
                  /\ pc = "try"
                  /\ pc' = "done"
                  /\ origin' = "live"
                  /\ cache'[k] = [exists |-> TRUE, mtime |-> now, content |-> ToCsv(result')]]_vars
    /\ [][\A k \in Kinds : cache[k].exists => cache'[k].exists]_vars
    /\ [][ (pc' \in {"done", "fail"} /\ pc # pc' /\ origin' \in {"cache", "stale", "none"})
              => cache' = cache ]_vars
    /\ [][ (pc = "idle" /\ pc' # "idle"
              /\ ~(use_cache' /\ cache[kind'].exists
                     /\ now - cache[kind'].mtime < cache_days'))
              => (pc' = "try" /\ idx' = 1 /\ cache' = cache) ]_vars

(* ---------------------- properties of the regional adapters ----------- *)
\* The inner steps of the latest turn, when it was the KDCA Regional adapter's.
ApiOutcome == last.steps[1].outcome

Scraped == Len(last.steps) = 2

BothFailed == Scraped /\ last.steps[2].outcome # "table"

\* What C28 states but for the content of the log entry.
NestedFallback ==
    /\ Len(last.steps) \in {1, 2}
    /\ last.steps[1].step = "api"
    /\ (Scraped <=> ApiOutcome \notin {"table", "empty"})
    /\ (Scraped => last.steps[2].step = "scrape")
    /\ (last.fetch = "empty" => ~Scraped /\ last.res = "not_succeeded")
    /\ (BothFailed =>
           /\ last.res = "fetch_raised"
           /\ last.exc = last.steps[2].outcome
           /\ error_log = <<[source |-> "KDCA Regional", category |-> Handler(last.exc)]>>
           /\ Message(last.exc, last.context).exc = last.steps[2].outcome)

StatedRate(c, n) ==
    CHOOSE r \in 0..(10000 * c) \div n + 1 :
        /\ 2 * (r * n - 10000 * c) <= n
        /\ 2 * (10000 * c - r * n) <= n

\* C23: a table the daily-statistics formatter returns with a daily_cases and a
\* daily_tests column has a positivity_rate column, in every row the cases by
\* the tests in percent to two decimals, whatever the source and the other
\* columns, daily_deaths among them.
C23_RateWheneverCasesAndTests ==
    (Formatted /\ {"daily_cases", "daily_tests"} \subseteq Cols(formatted_data.t)) =>
        /\ "positivity_rate" \in Cols(formatted_data.t)
        /\ \A i \in 1..Rows(formatted_data.t) :
               formatted_data.t["positivity_rate"][i] =
                   StatedRate(formatted_data.t["daily_cases"][i],
                              formatted_data.t["daily_tests"][i])

(* ------------------- properties of the regional tables ---------------- *)
\* The nearest whole number to a / b.
Nearest(a, b) ==
    CHOOSE r \in (a \div b)..(a \div b + 1) : 2 * (r * b - a) <= b /\ 2 * (a - r * b) <= b

\* C21: in the table made from a scraped one, a row whose name is a key of the
\* lookup table has the region the table gives for it (Seoul for the Korean
\* name of Seoul); without a population column in the source its population is
\* the region's share of POPULATION, rounded (Seoul: 20 percent); and its
\* first_dose_percentage is first_dose / population * 100 to two decimals (the
\* doses and populations drawn are whole thousands, and the quotient is taken
\* of the thousands).
C21_ScrapedRowIsCanonical ==
    (Formatted /\ source_name = "KDCA dashboard") =>
        \A i \in 1..Rows(table) :
            table[FirstCol][i] \in DOMAIN region_mapping =>
                LET row == [c \in Cols(formatted_data.t) |-> formatted_data.t[c][i]]
                    r == region_mapping[table[FirstCol][i]]
                IN  /\ row["region"] = r
                    /\ (table[FirstCol][i] = "ko:Seoul" => row["region"] = "Seoul")
                    /\ ("ingu" \notin Cols(table) =>
                           /\ row["population"] =
                                  Nearest(POPULATION * population_distribution[r], 100)
                           /\ (r = "Seoul" => row["population"] = 10200000))
                    /\ ("1cha jeopjong" \in Cols(table) =>
                           row["first_dose_percentage"] =
                               Nearest(10000 * (row["first_dose"] \div 1000),
                                       row["population"] \div 1000))

\* C22: a regional table handed over by any of the four ways has a region in
\* every row, each one of the 17 canonical names and none twice.
C22_RegionsCanonicalAndDistinct ==
    Formatted =>
        /\ "region" \in Cols(formatted_data.t)
        /\ \A i \in 1..Rows(formatted_data.t) :
               /\ formatted_data.t["region"][i] # Null
               /\ formatted_data.t["region"][i] \in RegionSet
        /\ NoRepeat(formatted_data.t["region"])

====
